---------------------------- MODULE Spec2Model ----------------------------
(***************************************************************************)
(* A model of procmanage, a process-lifecycle manager written in C.        *)
(*                                                                         *)
(* The repository holds two revisions of procmanage.c (both are in         *)
(* src/unnamed/part_000: lines 1-352 and lines 354-638).  They differ in   *)
(* process_create (only the later one pushes the path as argv[0]), in      *)
(* process_free (only the later one calls process_close), in the list      *)
(* helpers (the earlier one has _process_array_* and process_add_args /    *)
(* process_add_envs) and in the child branch of process_open (only the     *)
(* earlier one calls setsid).  The variable rev says which revision the    *)
(* program was built from; it never changes.                               *)
(*                                                                         *)
(* The operating system is modelled as far as the library uses it: the     *)
(* parent's descriptor table, pipes, child processes with their own        *)
(* descriptor tables, process identifiers that are reused once a child has *)
(* been reaped, and SIGKILL, whose delivery is asynchronous.               *)
(***************************************************************************)
EXTENDS Integers, Sequences, FiniteSets, TLC

VARIABLES
    rev,      \* 1: part_000 lines 1-352, 2: part_000 lines 354-638
    P,        \* the Process objects, by handle
    fds,      \* the parent's descriptor table: descriptor -> pipe end
    procs,    \* every child ever forked, in fork order
    npipes,   \* number of pipes created so far (pipes are named 1..npipes)
    nopen,    \* number of process_open calls that passed the guard
    lastOp,   \* the last library call: what it was given, did and returned
    mem,      \* the allocator: blocks in use, each handle's blocks, last calls
    appended  \* the strings appended to each list since it was absent

vars == <<rev, P, fds, procs, npipes, nopen, lastOp, mem, appended>>

---------------------------------------------------------------------------
(* Bounds of the model *)

\* process_open calls that get past the pid guard, over the whole run
MaxOpens == 3
\* longest array a caller hands to process_create / process_add_args
MaxArr == 2
\* longest list of the program that edits a launched handle
EditLen == 1

(* Program constants *)

\* the value of an unset descriptor or pid (p->in = -1, ... p->pid = -1)
Unset == -1

\* the longest list the model lets a handle grow to: path plus MaxArr items
MaxLen == MaxArr + 1

Revisions == {1, 2}
Handles == {1, 2}
\* the slot of a char*[] that holds the NULL pointer
Nil == "NULL"
\* the binary of the README's example; whether execve can load it is the
\* file system's matter, decided when the child calls execve
Paths == {"/bin/ping"}
ArgStrings == {"a", "b"}
EnvStrings == {"K=v"}
\* process identifiers the kernel hands out
PidNums == {101, 102}

---------------------------------------------------------------------------
(* char*[] arrays.  A NULL array pointer is <<>>; an allocated array is    *)
(* the sequence of its slots, the last of which holds Nil.                 *)

RECURSIVE SeqsUpTo(_, _)
SeqsUpTo(S, n) ==
    IF n = 0 THEN {<<>>}
    ELSE LET shorter == SeqsUpTo(S, n - 1)
         IN  shorter \cup {Append(s, x) : s \in {t \in shorter : Len(t) = n - 1}, x \in S}

\* the arrays a caller may pass: NULL, or items followed by the NULL slot
CallerArrays(S) == {<<>>} \cup {Append(s, Nil) : s \in SeqsUpTo(S, MaxArr)}
ArgArrays == CallerArrays(ArgStrings)
EnvArrays == CallerArrays(EnvStrings)

RECURSIVE CountFrom(_, _)
CountFrom(arr, arrc) ==
    IF arrc + 1 <= Len(arr) /\ arr[arrc + 1] # Nil
    THEN CountFrom(arr, arrc + 1)
    ELSE arrc

\* for (; arr != NULL && arr[arrc] != NULL; arrc++);
_process_array_count(arr) == IF arr = <<>> THEN 0 ELSE CountFrom(arr, 0)

\* the strings of an array, without the element that ends it
Items(arr) == SubSeq(arr, 1, _process_array_count(arr))

\* *dest = calloc(strlen(src) + 1, 1); memcpy(*dest, src, strlen(src));
_process_string_copy(src) == src

\* realloc to arrc + 2 slots (the old slots are kept), copy the item into
\* slot arrc, NULL slot arrc + 1
_process_array_push(arr, item) ==
    LET arrc == _process_array_count(arr)
        grown == [i \in 1..(arrc + 2) |-> IF i <= Len(arr) THEN arr[i] ELSE Nil]
    IN  [grown EXCEPT ![arrc + 1] = _process_string_copy(item), ![arrc + 2] = Nil]

\* every element is freed, then the array; the pointer becomes NULL
_process_array_clear(arr) == <<>>

RECURSIVE PushAllFrom(_, _, _)
PushAllFrom(arr, items, i) ==
    IF items # <<>> /\ i + 1 <= Len(items) /\ items[i + 1] # Nil
    THEN PushAllFrom(_process_array_push(arr, items[i + 1]), items, i + 1)
    ELSE arr

\* (a loop that starts at the second item)
PushAll_FromSecond(arr, items) == PushAllFrom(arr, items, 1)

\* for (int i = 0; args != NULL && args[i] != NULL; i++) push(args[i]);
PushAll(arr, items) == PushAllFrom(arr, items, 0)

---------------------------------------------------------------------------
(* The operating system, as far as the library uses it *)

\* what descriptors 0, 1 and 2 of the parent refer to
Std == [pipe |-> 0, end |-> "tty"]
NoFds == [d \in {} |-> Std]

\* the lowest descriptor not in use, which is the one pipe() and dup() return
LowestFree(tbl) ==
    CHOOSE n \in 0..Cardinality(DOMAIN tbl) :
        n \notin DOMAIN tbl /\ \A m \in 0..(n - 1) : m \in DOMAIN tbl

\* close(fd): the descriptor leaves the table (EBADF changes nothing)
close(tbl, fd) == [d \in (DOMAIN tbl) \ {fd} |-> tbl[d]]

\* dup2(old, new): new refers to what old refers to; nothing when old is
\* not open or old = new
dup2(tbl, old, new) ==
    IF old \notin DOMAIN tbl \/ old = new THEN tbl
    ELSE [d \in (DOMAIN tbl) \cup {new} |-> IF d = new THEN tbl[old] ELSE tbl[d]]

\* pipe(fildes) creating pipe k: fildes[0] is the read end, fildes[1] the
\* write end, each the lowest descriptor free at that moment
pipe(tbl, k) ==
    LET rd == LowestFree(tbl)
        t1 == [d \in (DOMAIN tbl) \cup {rd} |->
                 IF d = rd THEN [pipe |-> k, end |-> "r"] ELSE tbl[d]]
        wr == LowestFree(t1)
        t2 == [d \in (DOMAIN t1) \cup {wr} |->
                 IF d = wr THEN [pipe |-> k, end |-> "w"] ELSE t1[d]]
    IN  [tbl |-> t2, fildes |-> <<rd, wr>>]

\* states of a child: "fork" (in the child branch of process_open, before
\* its pipes are prepared), "exec" (pipes prepared, about to call execve),
\* "image" (running the program), "zombie" (terminated, not reaped),
\* "reaped" (collected by waitpid: the pid is free again).  sig says that a
\* SIGKILL has been generated for the child and has not taken effect yet;
\* from then on the child takes no step of its own.
Running == {"fork", "exec", "image"}

\* the children a pid names: a reaped child has given its pid back
Target(ps, pid) == {i \in 1..Len(ps) : ps[i].pid = pid /\ ps[i].st # "reaped"}

\* pids fork() can return: not held by a child that is not reaped yet
FreePids(ps) == {n \in PidNums : Target(ps, n) = {}}

\* termination of a child: its descriptors are closed, it becomes a zombie
\* (how: "0" and "1" are exit statuses, "SIGKILL" a death by that signal)
Terminate(c, how) == [c EXCEPT !.st = "zombie", !.sig = FALSE, !.status = how, !.fds = NoFds]

\* kill(pid, SIGKILL): the signal is generated for the process of that pid;
\* pid -1 names every process the caller may signal, pid 0 the caller's
\* process group (the children that did not leave it with setsid)
kill(ps, pid) ==
    [i \in 1..Len(ps) |->
        IF /\ ps[i].st \in Running
           /\ \/ pid = -1
              \/ pid = 0 /\ ~ps[i].session
              \/ pid > 0 /\ i \in Target(ps, pid)
        THEN [ps[i] EXCEPT !.sig = TRUE]
        ELSE ps[i]]

\* the signal takes effect: the process terminates
Deliver(ps, pid) ==
    [i \in 1..Len(ps) |->
        IF i \in Target(ps, pid) /\ ps[i].st \in Running /\ ps[i].sig
        THEN Terminate(ps[i], "SIGKILL")
        ELSE ps[i]]

\* waitpid(pid, NULL, WNOHANG): a zombie of that pid is reaped and its status
\* discarded (NULL); a child that has not terminated yet is left alone and
\* the call returns at once.  pid -1 names any child: the first zombie.
Zombies(ps) == {i \in 1..Len(ps) : ps[i].st = "zombie"}

waitpid(ps, pid) ==
    [i \in 1..Len(ps) |->
        IF \/ pid > 0 /\ i \in Target(ps, pid) /\ ps[i].st = "zombie"
           \/ pid = -1 /\ i \in Zombies(ps) /\ \A j \in Zombies(ps) : i <= j
        THEN [ps[i] EXCEPT !.st = "reaped", !.status = "none"]
        ELSE ps[i]]

---------------------------------------------------------------------------
(* struct Process and the library's functions.  A function of the library  *)
(* is an operator from the object (and the operating system's state) to    *)
(* the object and state it leaves, with the system calls it made.          *)

\* the slot of a handle for which process_create has not been called
NoProcess ==
    [st |-> "none", path |-> Nil, argv |-> <<>>, envp |-> <<>>,
     in |-> Unset, out |-> Unset, err |-> Unset, pid |-> Unset]

\* process_add_arg, process_add_env
process_add_arg(p, arg) == [p EXCEPT !.argv = _process_array_push(p.argv, arg)]
process_add_env(p, env) == [p EXCEPT !.envp = _process_array_push(p.envp, env)]

\* process_add_args, process_add_envs (earlier revision only)
process_add_args(p, args) == [p EXCEPT !.argv = PushAll(p.argv, args)]
process_add_envs(p, envs) == [p EXCEPT !.envp = PushAll(p.envp, envs)]

\* process_clear_argv, process_clear_envp
process_clear_argv(p) == [p EXCEPT !.argv = _process_array_clear(p.argv)]
process_clear_envp(p) == [p EXCEPT !.envp = _process_array_clear(p.envp)]

\* the object after malloc and the seven initialising assignments, with the
\* path copied in
NewProcess(path) ==
    [st |-> "live", path |-> _process_string_copy(path), argv |-> <<>>, envp |-> <<>>,
     in |-> Unset, out |-> Unset, err |-> Unset, pid |-> Unset]

\* process_create of the earlier revision: the arguments are the caller's
process_create_1(path, argv, envp) ==
    process_add_envs(process_add_args(NewProcess(path), argv), envp)

\* process_create of the later revision: the path is pushed first
process_create_2(path, argv, envp) ==
    process_add_envs(process_add_args(process_add_arg(NewProcess(path), path), argv), envp)

process_create(r, path, argv, envp) ==
    IF r = 1 THEN process_create_1(path, argv, envp)
    ELSE process_create_2(path, argv, envp)

---------------------------------------------------------------------------
(* process_open *)

\* (a process_open that does not look at pid)
OpenGuard_Always(p) == TRUE

\* if (p->pid == -1)
OpenGuard(p) == p.pid = Unset

\* the child fork() creates: a copy of the parent at that moment, with its
\* descriptor table, the three pipes' descriptors and the object's strings
ForkedChild(p, h, tbl, ipipe, opipe, epipe, pid) ==
    [pid |-> pid, st |-> "fork", sig |-> FALSE, status |-> "none", owner |-> h,
     session |-> FALSE, fds |-> tbl,
     ipipe |-> ipipe, opipe |-> opipe, epipe |-> epipe,
     img |-> [path |-> p.path, argv |-> p.argv, envp |-> p.envp]]

\* (a parent that keeps the read end of the input pipe and closes its write end)
OpenParent_Swapped(p, tbl, ipipe, opipe, epipe) ==
    [p   |-> [p EXCEPT !.in = ipipe[1], !.out = opipe[1], !.err = epipe[1]],
     fds |-> close(close(close(tbl, ipipe[2]), opipe[2]), epipe[2]),
     calls |-> << <<"close", ipipe[2]>>, <<"close", opipe[2]>>, <<"close", epipe[2]>> >>]

\* (a parent that closes none of the ends it does not use)
OpenParent_KeepEnds(p, tbl, ipipe, opipe, epipe) ==
    [p   |-> [p EXCEPT !.in = ipipe[2], !.out = opipe[1], !.err = epipe[1]],
     fds |-> tbl,
     calls |-> <<>>]

\* the else branch: taken by the parent, and also when fork() returned -1.
\* A C array's [0] and [1] are a tuple's [1] and [2].
OpenParent(p, tbl, ipipe, opipe, epipe) ==
    [p   |-> [p EXCEPT !.in = ipipe[2], !.out = opipe[1], !.err = epipe[1]],
     fds |-> close(close(close(tbl, ipipe[1]), opipe[2]), epipe[2]),
     calls |-> << <<"close", ipipe[1]>>, <<"close", opipe[2]>>, <<"close", epipe[2]>> >>]

\* retVal = (p->pid != -1 ? 1 : 0);
OpenRet(p) == IF p.pid # Unset THEN 1 ELSE 0

\* process_open on object p of handle h, with the parent's table tbl, k
\* pipes created before, and fork() returning forkRet
process_open(p, h, tbl, k, forkRet) ==
    IF ~OpenGuard(p)
    THEN [p |-> p, fds |-> tbl, forked |-> <<>>, ret |-> 0, calls |-> <<>>, pipes |-> <<>>]
    ELSE LET i  == pipe(tbl, k + 1)
             o  == pipe(i.tbl, k + 2)
             e  == pipe(o.tbl, k + 3)
             p1 == [p EXCEPT !.pid = forkRet]
             par == OpenParent(p1, e.tbl, i.fildes, o.fildes, e.fildes)
         IN  [p      |-> par.p,
              fds    |-> par.fds,
              forked |-> IF forkRet # -1
                         THEN <<ForkedChild(p, h, e.tbl, i.fildes, o.fildes, e.fildes, forkRet)>>
                         ELSE <<>>,
              ret    |-> OpenRet(par.p),
              calls  |-> << <<"pipe", i.fildes[1]>>, <<"pipe", o.fildes[1]>>,
                            <<"pipe", e.fildes[1]>>, <<"fork", forkRet>> >> \o par.calls,
              pipes  |-> <<k + 1, k + 2, k + 3>>]

---------------------------------------------------------------------------
(* process_close *)

\* (a close of the stream that forgets p->f = -1)
CloseStream_KeepField(s, f) ==
    IF s.p[f] # Unset
    THEN [s EXCEPT !.fds = close(s.fds, s.p[f]),
                   !.calls = Append(s.calls, <<"close", s.p[f]>>)]
    ELSE s

\* if (p->f != -1) { close(p->f); p->f = -1; }   for f one of in, out, err
CloseStream(s, f) ==
    IF s.p[f] # Unset
    THEN [s EXCEPT !.p = [s.p EXCEPT ![f] = Unset],
                   !.fds = close(s.fds, s.p[f]),
                   !.calls = Append(s.calls, <<"close", s.p[f]>>)]
    ELSE s

\* (a process_close that reaps without sending the signal)
KillChild_NoKill(s, delivered) ==
    IF s.p.pid # Unset
    THEN [s EXCEPT !.p = [s.p EXCEPT !.pid = Unset],
                   !.procs = waitpid(s.procs, s.p.pid),
                   !.calls = Append(s.calls, <<"waitpid", s.p.pid>>)]
    ELSE s

\* (a process_close that forgets p->pid = -1)
KillChild_KeepPid(s, delivered) ==
    IF s.p.pid # Unset
    THEN LET killed == kill(s.procs, s.p.pid)
             dead   == IF delivered THEN Deliver(killed, s.p.pid) ELSE killed
         IN  [s EXCEPT !.procs = waitpid(dead, s.p.pid),
                       !.calls = s.calls \o << <<"kill", s.p.pid>>, <<"waitpid", s.p.pid>> >>]
    ELSE s

\* (a process_close that signals and reaps without looking at pid)
KillChild_Unconditional(s, delivered) ==
    LET killed == kill(s.procs, s.p.pid)
        dead   == IF delivered THEN Deliver(killed, s.p.pid) ELSE killed
    IN  [s EXCEPT !.p = [s.p EXCEPT !.pid = Unset],
                  !.procs = waitpid(dead, s.p.pid),
                  !.calls = s.calls \o << <<"kill", s.p.pid>>, <<"waitpid", s.p.pid>> >>]

\* (a process_close that tests pid against 0, as process_open's child
\* branch does, and so signals with the pid a failed fork left)
KillChild_TestsZero(s, delivered) ==
    IF s.p.pid # 0
    THEN LET killed == kill(s.procs, s.p.pid)
             dead   == IF delivered THEN Deliver(killed, s.p.pid) ELSE killed
         IN  [s EXCEPT !.p = [s.p EXCEPT !.pid = Unset],
                       !.procs = waitpid(dead, s.p.pid),
                       !.calls = s.calls \o << <<"kill", s.p.pid>>, <<"waitpid", s.p.pid>> >>]
    ELSE s

\* if (p->pid != -1) { kill(p->pid, SIGKILL); waitpid(p->pid, NULL, WNOHANG);
\* p->pid = -1; }   The signal may or may not have taken effect when waitpid
\* looks (delivered).
KillChild(s, delivered) ==
    IF s.p.pid # Unset
    THEN LET killed == kill(s.procs, s.p.pid)
             dead   == IF delivered THEN Deliver(killed, s.p.pid) ELSE killed
         IN  [s EXCEPT !.p = [s.p EXCEPT !.pid = Unset],
                       !.procs = waitpid(dead, s.p.pid),
                       !.calls = s.calls \o << <<"kill", s.p.pid>>, <<"waitpid", s.p.pid>> >>]
    ELSE s

process_close(p, tbl, ps, delivered) ==
    KillChild(
        CloseStream(CloseStream(CloseStream(
            [p |-> p, fds |-> tbl, procs |-> ps, calls |-> <<>>], "in"), "out"), "err"),
        delivered)

---------------------------------------------------------------------------
(* process_free *)

\* the part both revisions share: the path, the two lists and the object
\* itself are freed
FreeStorage(s) ==
    [s EXCEPT !.p = [process_clear_envp(process_clear_argv([s.p EXCEPT !.path = Nil]))
                        EXCEPT !.st = "freed"]]

\* the earlier revision: "// process_close(p);" is commented out
process_free_1(p, tbl, ps, delivered) ==
    FreeStorage([p |-> p, fds |-> tbl, procs |-> ps, calls |-> <<>>])

\* the later revision: process_close(p) comes first
process_free_2(p, tbl, ps, delivered) ==
    FreeStorage(process_close(p, tbl, ps, delivered))

process_free(r, p, tbl, ps, delivered) ==
    IF r = 1 THEN process_free_1(p, tbl, ps, delivered)
    ELSE process_free_2(p, tbl, ps, delivered)

---------------------------------------------------------------------------
(* The allocator, and the blocks the library's functions allocate and      *)
(* release.  The lists of an object hold the contents of its strings; mem  *)
(* holds where they are stored.  A block is named by the pointer variable  *)
(* it was allocated for: <<h, "self">> is the object of handle h,          *)
(* <<h, "path">> its path, <<h, "argv">> its argument array and            *)
(* <<h, "argv", i>> the string of the array's i-th slot.  The blocks in    *)
(* use are live, the pointers each object holds are in own, log is the     *)
(* allocator calls of the last library call, ub tells whether free() was   *)
(* ever given a pointer that is not a block in use, and lost whether a     *)
(* pointer to a block in use was ever overwritten by a new allocation.     *)

NullPtr == <<>>

\* the caller's strings are in the caller's storage
StaticAddr(s) == <<0, s>>

\* the pointers of a struct Process, and the object itself (self); argvs
\* and envs are the element pointers the arrays hold
NoBlocks ==
    [self |-> NullPtr, path |-> NullPtr, argv |-> NullPtr, argvs |-> <<>>,
     envp |-> NullPtr, envs |-> <<>>]

EmptyHeap ==
    [live |-> {}, own |-> [h \in Handles |-> NoBlocks], log |-> <<>>,
     ub |-> FALSE, lost |-> FALSE]

\* malloc(n), calloc(n, 1), realloc(NULL, n), the result stored in dest
Allocate(m, fn, dest) ==
    [m EXCEPT !.live = @ \cup {dest}, !.log = Append(@, <<fn, dest>>),
              !.lost = @ \/ dest \in m.live]

\* the pointer the last allocator call returned
Allocated(m) == m.log[Len(m.log)][2]

\* free(ptr); free(NULL) does nothing
free(m, ptr) ==
    [m EXCEPT !.live = @ \ {ptr}, !.log = Append(@, <<"free", ptr>>),
              !.ub = @ \/ (ptr # NullPtr /\ ptr \notin m.live)]

\* dest = realloc(ptr, n): the block grows where it is
realloc(m, ptr, dest) ==
    IF ptr = NullPtr THEN Allocate(m, "realloc", dest)
    ELSE [m EXCEPT !.log = Append(@, <<"realloc", ptr>>)]

\* (a copy that stores the caller's pointer and allocates nothing)
StringCopyBlock_Alias(m, dest, src) == [m EXCEPT !.log = Append(@, <<"none", src>>)]

\* _process_string_copy(dest, src): calloc(strlen(src) + 1, sizeof(char))
StringCopyBlock(m, dest, src) == Allocate(m, "calloc", dest)

\* _process_array_push on the array arr of handle h, its element pointers
\* in elems: realloc, then the copy stored in the new slot
ArrayPushBlocks(m, h, arr, elems, src) ==
    LET m1 == realloc(m, m.own[h][arr], <<h, arr>>)
        m2 == [m1 EXCEPT !.own[h][arr] = Allocated(m1)]
        m3 == StringCopyBlock(m2, <<h, arr, Len(m.own[h][elems]) + 1>>, src)
    IN  [m3 EXCEPT !.own[h][elems] = Append(@, Allocated(m3))]

RECURSIVE ArrayPushAllBlocks(_, _, _, _, _)
ArrayPushAllBlocks(m, h, arr, elems, items) ==
    IF items = <<>> THEN m
    ELSE ArrayPushAllBlocks(ArrayPushBlocks(m, h, arr, elems, StaticAddr(Head(items))),
                            h, arr, elems, Tail(items))

RECURSIVE FreeEach(_, _)
FreeEach(m, ptrs) ==
    IF ptrs = <<>> THEN m ELSE FreeEach(free(m, Head(ptrs)), Tail(ptrs))

\* (a clear that releases the array and not its elements)
ArrayClearBlocks_ArrayOnly(r, m, h, arr, elems) ==
    [free(m, m.own[h][arr]) EXCEPT !.own[h][arr] = NullPtr, !.own[h][elems] = <<>>]

\* _process_array_clear (earlier revision) and the body of
\* process_clear_argv, process_clear_envp (later revision, which does
\* nothing for a NULL array): each element freed, then the array
ArrayClearBlocks(r, m, h, arr, elems) ==
    IF r = 2 /\ m.own[h][arr] = NullPtr THEN m
    ELSE [free(FreeEach(m, m.own[h][elems]), m.own[h][arr])
             EXCEPT !.own[h][arr] = NullPtr, !.own[h][elems] = <<>>]

\* process_create: malloc for the object, the copy of the path, the pushes
CreateBlocks(r, m, h, path, argv, envp) ==
    LET m1 == Allocate(m, "malloc", <<h, "self">>)
        m2 == [m1 EXCEPT !.own[h].self = Allocated(m1)]
        m3 == StringCopyBlock(m2, <<h, "path">>, StaticAddr(path))
        m4 == [m3 EXCEPT !.own[h].path = Allocated(m3)]
        m5 == IF r = 2 THEN ArrayPushBlocks(m4, h, "argv", "argvs", StaticAddr(path))
              ELSE m4
        m6 == ArrayPushAllBlocks(m5, h, "argv", "argvs", Items(argv))
    IN  ArrayPushAllBlocks(m6, h, "envp", "envs", Items(envp))

\* the handle that is NULL
NullHandle == 0

\* (a process_free that forgets the path)
FreeBlocks_KeepPath(r, m, h) ==
    IF h = NullHandle THEN m
    ELSE LET m2 == ArrayClearBlocks(r, m, h, "argv", "argvs")
             m3 == ArrayClearBlocks(r, m2, h, "envp", "envs")
         IN  [free(m3, m.own[h].self) EXCEPT !.own[h] = NoBlocks]

\* process_free: nothing for NULL; else the path, the two lists, the object
FreeBlocks(r, m, h) ==
    IF h = NullHandle THEN m
    ELSE LET m1 == IF m.own[h].path # NullPtr THEN free(m, m.own[h].path) ELSE m
             m2 == ArrayClearBlocks(r, m1, h, "argv", "argvs")
             m3 == ArrayClearBlocks(r, m2, h, "envp", "envs")
         IN  [free(m3, m.own[h].self) EXCEPT !.own[h] = NoBlocks]

\* the allocator state a library call starts from
Before(m) == [m EXCEPT !.log = <<>>]

---------------------------------------------------------------------------
(* The state machine: the caller's calls and the children's steps *)

StdFds == [d \in {0, 1, 2} |-> Std]

\* the record of a library call: the call made on the same handle just
\* before it (prev), the object, the parent's descriptor table and the
\* number of children before it, what it was given (arg), what it returned
\* (ret), the system calls it made (calls) and the pipes it created (pipes:
\* input, output, error)
Call(op, h, arg, ret, calls, pipes) ==
    [op |-> op, h |-> h, arg |-> arg, ret |-> ret, calls |-> calls, pipes |-> pipes,
     prev |-> IF lastOp.h = h THEN lastOp.op ELSE "none",
     pre |-> P[h], prefds |-> fds, nprocs |-> Len(procs), premem |-> Before(mem)]

\* what the caller has appended to a list one string at a time since the
\* list was last absent (from "absent"); from is "other" when the list was
\* filled in another way
Untracked == [from |-> "other", items |-> <<>>]
FromAbsent == [from |-> "absent", items |-> <<>>]
Tracked(list) == IF list = <<>> THEN FromAbsent ELSE Untracked
Noted(a, item) == IF a.from = "absent" THEN [a EXCEPT !.items = Append(@, item)] ELSE a

Init ==
    /\ rev \in Revisions
    /\ P = [h \in Handles |-> NoProcess]
    /\ fds = StdFds
    /\ procs = <<>>
    /\ npipes = 0
    /\ nopen = 0
    /\ lastOp = [op |-> "none", h |-> 0, arg |-> <<>>, ret |-> 0, calls |-> <<>>,
                 pipes |-> <<>>, prev |-> "none", pre |-> NoProcess,
                 prefds |-> StdFds, nprocs |-> 0, premem |-> EmptyHeap]
    /\ mem = EmptyHeap
    /\ appended = [h \in Handles |-> [argv |-> Untracked, envp |-> Untracked]]

Live(h) == P[h].st = "live"

\* p = process_create(path, argv, envp)
CallCreate(h, path, argv, envp) ==
    /\ P[h].st = "none"
    /\ P' = [P EXCEPT ![h] = process_create(rev, path, argv, envp)]
    /\ lastOp' = Call("create", h, [path |-> path, argv |-> argv, envp |-> envp], 0, <<>>, <<>>)
    /\ mem' = CreateBlocks(rev, Before(mem), h, path, argv, envp)
    /\ appended' = [appended EXCEPT ![h] = [argv |-> Tracked(P'[h].argv),
                                            envp |-> Tracked(P'[h].envp)]]
    /\ UNCHANGED <<rev, fds, procs, npipes, nopen>>

\* (a call whose change of the lists shows in the handle's children, as if
\* they shared the parent's memory)
ListCall_Shared(op, h, arg, q) ==
    /\ P' = [P EXCEPT ![h] = q]
    /\ lastOp' = Call(op, h, arg, 0, <<>>, <<>>)
    /\ procs' = [c \in 1..Len(procs) |->
                   IF procs[c].owner = h
                   THEN [procs[c] EXCEPT !.img = [path |-> q.path, argv |-> q.argv,
                                                  envp |-> q.envp]]
                   ELSE procs[c]]
    /\ UNCHANGED <<rev, fds, npipes, nopen>>

\* a call that changes the object only
ListCall(op, h, arg, q) ==
    /\ P' = [P EXCEPT ![h] = q]
    /\ lastOp' = Call(op, h, arg, 0, <<>>, <<>>)
    /\ UNCHANGED <<rev, fds, procs, npipes, nopen>>

CallAddArg(h, arg) ==
    /\ Live(h)
    /\ _process_array_count(P[h].argv) < MaxLen
    /\ ListCall("add_arg", h, arg, process_add_arg(P[h], arg))
    /\ mem' = ArrayPushBlocks(Before(mem), h, "argv", "argvs", StaticAddr(arg))
    /\ appended' = [appended EXCEPT ![h].argv = Noted(@, arg)]

CallAddEnv(h, env) ==
    /\ Live(h)
    /\ _process_array_count(P[h].envp) < MaxLen
    /\ ListCall("add_env", h, env, process_add_env(P[h], env))
    /\ mem' = ArrayPushBlocks(Before(mem), h, "envp", "envs", StaticAddr(env))
    /\ appended' = [appended EXCEPT ![h].envp = Noted(@, env)]

CallAddArgs(h, args) ==
    /\ Live(h)
    /\ rev = 1
    /\ _process_array_count(P[h].argv) + _process_array_count(args) <= MaxLen
    /\ ListCall("add_args", h, args, process_add_args(P[h], args))
    /\ mem' = ArrayPushAllBlocks(Before(mem), h, "argv", "argvs", Items(args))
    /\ appended' = [appended EXCEPT ![h].argv = IF Items(args) = <<>> THEN @ ELSE Untracked]

CallAddEnvs(h, envs) ==
    /\ Live(h)
    /\ rev = 1
    /\ _process_array_count(P[h].envp) + _process_array_count(envs) <= MaxLen
    /\ ListCall("add_envs", h, envs, process_add_envs(P[h], envs))
    /\ mem' = ArrayPushAllBlocks(Before(mem), h, "envp", "envs", Items(envs))
    /\ appended' = [appended EXCEPT ![h].envp = IF Items(envs) = <<>> THEN @ ELSE Untracked]

CallClearArgv(h) ==
    /\ Live(h)
    /\ ListCall("clear_argv", h, <<>>, process_clear_argv(P[h]))
    /\ mem' = ArrayClearBlocks(rev, Before(mem), h, "argv", "argvs")
    /\ appended' = [appended EXCEPT ![h].argv = Tracked(P'[h].argv)]

CallClearEnvp(h) ==
    /\ Live(h)
    /\ ListCall("clear_envp", h, <<>>, process_clear_envp(P[h]))
    /\ mem' = ArrayClearBlocks(rev, Before(mem), h, "envp", "envs")
    /\ appended' = [appended EXCEPT ![h].envp = Tracked(P'[h].envp)]

\* process_open(p), fork() returning forkRet: -1, or the new child's pid
CallOpen(h, forkRet) ==
    /\ Live(h)
    /\ OpenGuard(P[h]) => nopen < MaxOpens
    /\ LET r == process_open(P[h], h, fds, npipes, forkRet)
       IN  /\ P' = [P EXCEPT ![h] = r.p]
           /\ fds' = r.fds
           /\ procs' = procs \o r.forked
           /\ npipes' = npipes + Len(r.pipes)
           /\ nopen' = IF OpenGuard(P[h]) THEN nopen + 1 ELSE nopen
           /\ lastOp' = Call("open", h, forkRet, r.ret, r.calls, r.pipes)
    /\ mem' = Before(mem)
    /\ UNCHANGED <<rev, appended>>

\* process_close(p)
CallClose(h, delivered) ==
    /\ Live(h)
    /\ LET r == process_close(P[h], fds, procs, delivered)
       IN  /\ P' = [P EXCEPT ![h] = r.p]
           /\ fds' = r.fds
           /\ procs' = r.procs
           /\ lastOp' = Call("close", h, <<>>, 0, r.calls, <<>>)
    /\ mem' = Before(mem)
    /\ UNCHANGED <<rev, npipes, nopen, appended>>

\* process_free(p), p not NULL
CallFree(h, delivered) ==
    /\ Live(h)
    /\ LET r == process_free(rev, P[h], fds, procs, delivered)
       IN  /\ P' = [P EXCEPT ![h] = r.p]
           /\ fds' = r.fds
           /\ procs' = r.procs
           /\ lastOp' = Call("free", h, <<>>, 0, r.calls, <<>>)
    /\ mem' = FreeBlocks(rev, Before(mem), h)
    /\ appended' = [appended EXCEPT ![h] = [argv |-> Untracked, envp |-> Untracked]]
    /\ UNCHANGED <<rev, npipes, nopen>>

\* process_free(NULL)
CallFreeNull ==
    /\ lastOp' = [op |-> "free", h |-> NullHandle, arg |-> <<>>, ret |-> 0,
                  calls |-> <<>>, pipes |-> <<>>,
                  prev |-> IF lastOp.h = NullHandle THEN lastOp.op ELSE "none",
                  pre |-> NoProcess, prefds |-> fds, nprocs |-> Len(procs),
                  premem |-> Before(mem)]
    /\ mem' = FreeBlocks(rev, Before(mem), NullHandle)
    /\ UNCHANGED <<rev, P, fds, procs, npipes, nopen, appended>>

\* (a child that does not close the pipe descriptors after dup2)
ChildPrepare_KeepOriginals(c) ==
    /\ procs[c].st = "fork"
    /\ ~procs[c].sig
    /\ LET k  == procs[c]
           t1 == close(close(close(k.fds, k.ipipe[2]), k.opipe[1]), k.epipe[1])
           t2 == dup2(dup2(dup2(t1, k.ipipe[1], 0), k.opipe[2], 1), k.epipe[2], 2)
       IN  procs' = [procs EXCEPT ![c] = [k EXCEPT !.st = "exec", !.fds = t2,
                                                   !.session = (rev = 1)]]
    /\ UNCHANGED <<rev, P, fds, npipes, nopen, lastOp, mem, appended>>

\* the child branch of process_open up to execve: the ends the child does
\* not use are closed, the others moved to 0, 1 and 2, and (earlier
\* revision) setsid()
ChildPrepare(c) ==
    /\ procs[c].st = "fork"
    /\ ~procs[c].sig
    /\ LET k  == procs[c]
           t1 == close(close(close(k.fds, k.ipipe[2]), k.opipe[1]), k.epipe[1])
           t2 == dup2(dup2(dup2(t1, k.ipipe[1], 0), k.opipe[2], 1), k.epipe[2], 2)
           t3 == close(close(close(t2, k.ipipe[1]), k.opipe[2]), k.epipe[2])
       IN  procs' = [procs EXCEPT ![c] = [k EXCEPT !.st = "exec", !.fds = t3,
                                                   !.session = (rev = 1)]]
    /\ UNCHANGED <<rev, P, fds, npipes, nopen, lastOp, mem, appended>>

\* execve(p->path, p->argv, p->envp); _exit(1);
ChildExecve(c, loaded) ==
    /\ procs[c].st = "exec"
    /\ ~procs[c].sig
    /\ procs' = [procs EXCEPT ![c] = IF loaded THEN [@ EXCEPT !.st = "image"]
                                     ELSE Terminate(@, "1")]
    /\ UNCHANGED <<rev, P, fds, npipes, nopen, lastOp, mem, appended>>

\* the program the child runs ends by itself
ChildExit(c) ==
    /\ procs[c].st = "image"
    /\ ~procs[c].sig
    /\ procs' = [procs EXCEPT ![c] = Terminate(@, "0")]
    /\ UNCHANGED <<rev, P, fds, npipes, nopen, lastOp, mem, appended>>

\* a SIGKILL generated for the child takes effect
SignalDelivered(c) ==
    /\ procs[c].st \in Running
    /\ procs[c].sig
    /\ procs' = [procs EXCEPT ![c] = Terminate(@, "SIGKILL")]
    /\ UNCHANGED <<rev, P, fds, npipes, nopen, lastOp, mem, appended>>

\* the lifecycle calls a program holding the handles H may make
LifeCalls(H) ==
    \E h \in H :
        \/ \E path \in Paths : CallCreate(h, path, <<>>, <<>>)
        \/ \E forkRet \in {-1} \cup FreePids(procs) : CallOpen(h, forkRet)
        \/ \E delivered \in BOOLEAN : CallClose(h, delivered)
        \/ \E delivered \in BOOLEAN : CallFree(h, delivered)

\* the calls that build and clear the lists of the handles H
ListCalls(H) ==
    \E h \in H :
        \/ \E path \in Paths, argv \in ArgArrays, envp \in EnvArrays :
              CallCreate(h, path, argv, envp)
        \/ \E arg \in ArgStrings : CallAddArg(h, arg)
        \/ \E env \in EnvStrings : CallAddEnv(h, env)
        \/ \E args \in ArgArrays : CallAddArgs(h, args)
        \/ \E envs \in EnvArrays : CallAddEnvs(h, envs)
        \/ CallClearArgv(h)
        \/ CallClearEnvp(h)
        \/ CallFree(h, FALSE)

ChildSteps ==
    \E c \in 1..Len(procs) :
        \/ ChildPrepare(c)
        \/ \E loaded \in BOOLEAN : ChildExecve(c, loaded)
        \/ ChildExit(c)
        \/ SignalDelivered(c)

\* a program that creates one Process object and launches, closes and frees
\* it in any order, while its children run
Next == LifeCalls({1}) \/ ChildSteps

Spec == Init /\ [][Next]_vars

\* a program that creates one Process object and edits its lists
NextLists == ListCalls({1}) \/ CallFreeNull

SpecLists == Init /\ [][NextLists]_vars

\* the calls of a program that launches the handles H once and edits
\* their lists
EditCalls(H) ==
    \E h \in H :
        \/ \E path \in Paths : CallCreate(h, path, <<>>, <<>>)
        \/ \E arg \in ArgStrings :
              _process_array_count(P[h].argv) < EditLen /\ CallAddArg(h, arg)
        \/ \E env \in EnvStrings :
              _process_array_count(P[h].envp) < EditLen /\ CallAddEnv(h, env)
        \/ CallClearArgv(h)
        \/ CallClearEnvp(h)
        \/ \E forkRet \in {-1} \cup FreePids(procs) :
              nopen = 0 /\ CallOpen(h, forkRet)

\* the steps of children that no signal is sent to
ChildRuns ==
    \E c \in 1..Len(procs) :
        \/ ChildPrepare(c)
        \/ \E loaded \in BOOLEAN : ChildExecve(c, loaded)
        \/ ChildExit(c)

\* a program that creates one Process object, launches it once and edits
\* its lists before and after the launch, while the child runs
NextEdit == EditCalls({1}) \/ ChildRuns

SpecEdit == Init /\ [][NextEdit]_vars

\* the calls of a program that holds the handles H and launches each of
\* them once
LaunchCalls(H) ==
    \E h \in H :
        \/ \E path \in Paths : CallCreate(h, path, <<>>, <<>>)
        \/ \E forkRet \in {-1} \cup FreePids(procs) :
              (\A c \in 1..Len(procs) : procs[c].owner # h) /\ CallOpen(h, forkRet)
        \/ \E delivered \in BOOLEAN : CallClose(h, delivered)

\* a program that creates two Process objects, launches them one after
\* the other and closes them, while the children run
NextTwo == LaunchCalls(Handles) \/ ChildSteps

SpecTwo == Init /\ [][NextTwo]_vars

---------------------------------------------------------------------------
(* Properties.  Each is stated of the state a call leaves, which lastOp    *)
(* describes until the next call; the children's steps in between change   *)
(* neither the object nor the parent's descriptor table.                   *)

AllUnset(p) == p.in = Unset /\ p.out = Unset /\ p.err = Unset /\ p.pid = Unset
AllSet(p) == p.in # Unset /\ p.out # Unset /\ p.err # Unset /\ p.pid # Unset

\* the object the last call was made on, as it is now
Obj == P[lastOp.h]

\* the child the last call forked, and the one the handle had launched last
\* when the call was made
NewChild == lastOp.nprocs + 1
LaunchedBefore == {c \in 1..lastOp.nprocs : procs[c].owner = lastOp.h}
ChildBefore == CHOOSE c \in LaunchedBefore : \A d \in LaunchedBefore : d <= c

\* a child that runs and for which no SIGKILL has been generated
Alive(c) == procs[c].st \in Running /\ ~procs[c].sig

\* the descriptors of the parent that refer to a pipe among ks
DescriptorsOf(ks) == {d \in DOMAIN fds : fds[d].pipe \in ks}

Range(f) == {f[i] : i \in DOMAIN f}

\* C1: process_open on a handle whose pid is set returns 0, creates no pipe
\* and no child, and leaves pid, in, out and err as they were.
C1_OpenOnLaunchedIsNoOp ==
    (lastOp.op = "open" /\ lastOp.pre.pid # Unset) =>
        /\ lastOp.ret = 0
        /\ lastOp.calls = <<>>
        /\ lastOp.pipes = <<>>
        /\ Len(procs) = lastOp.nprocs
        /\ fds = lastOp.prefds
        /\ Obj = lastOp.pre

C1_Witness ==
    /\ lastOp.op = "open"
    /\ lastOp.pre.pid # Unset
    /\ AllSet(Obj)

\* C2: when fork fails, process_open returns 0 and leaves pid, in, out and
\* err unset, no child, and no descriptor it created open in the parent.
C2_ForkFailureLeavesPreLaunch ==
    (lastOp.op = "open" /\ OpenGuard(lastOp.pre) /\ lastOp.arg = -1) =>
        /\ lastOp.ret = 0
        /\ Obj.pid = Unset
        /\ Obj.in = Unset /\ Obj.out = Unset /\ Obj.err = Unset
        /\ Len(procs) = lastOp.nprocs
        /\ DOMAIN fds = DOMAIN lastOp.prefds

\* C3: between calls, pid and the three descriptors of an object are all
\* set or all unset.
C3_PidAndStreamsTogether ==
    \A h \in Handles : Live(h) => AllUnset(P[h]) \/ AllSet(P[h])

\* C4: after process_free on a running handle, the child it had launched is
\* not alive (it was sent SIGKILL) and the three descriptors are closed.
C4_FreeDoesNotLeakChild ==
    (lastOp.op = "free" /\ AllSet(lastOp.pre)) =>
        /\ ~Alive(ChildBefore)
        /\ {lastOp.pre.in, lastOp.pre.out, lastOp.pre.err} \cap DOMAIN fds = {}

\* C5: after process_close, whatever the object was before, in, out, err and
\* pid are all -1.
C5_CloseUnsetsAll == lastOp.op = "close" => AllUnset(Obj)

C5_Witness ==
    /\ lastOp.op = "close"
    /\ AllSet(lastOp.pre)
    /\ AllUnset(Obj)

C7_CreateInsertsPath ==
    lastOp.op = "create" =>
        Obj.argv = <<lastOp.arg.path>> \o Items(lastOp.arg.argv) \o <<Nil>>

\* C8: process_open on a freshly created handle, fork succeeding, returns 1;
\* pid is the child's, not negative; in, out and err are three different
\* open descriptors: the write end of the input pipe and the read ends of
\* the output and error pipes; the other three ends are closed in the parent.
C8_OpenWiresParent ==
    (lastOp.op = "open" /\ AllUnset(lastOp.pre) /\ lastOp.arg # -1) =>
        /\ lastOp.ret = 1
        /\ Len(procs) = NewChild
        /\ Obj.pid = procs[NewChild].pid /\ Obj.pid >= 0
        /\ procs[NewChild].owner = lastOp.h
        /\ Cardinality({Obj.in, Obj.out, Obj.err}) = 3
        /\ {Obj.in, Obj.out, Obj.err} \subseteq DOMAIN fds
        /\ fds[Obj.in] = [pipe |-> lastOp.pipes[1], end |-> "w"]
        /\ fds[Obj.out] = [pipe |-> lastOp.pipes[2], end |-> "r"]
        /\ fds[Obj.err] = [pipe |-> lastOp.pipes[3], end |-> "r"]
        /\ DescriptorsOf(Range(lastOp.pipes)) = {Obj.in, Obj.out, Obj.err}

C8_Witness ==
    /\ lastOp.op = "open"
    /\ lastOp.prev = "create"
    /\ AllUnset(lastOp.pre)
    /\ lastOp.ret = 1
    /\ AllSet(Obj)

\* C9: a process_open that follows a process_close, fork succeeding, passes
\* the guard, returns 1 and creates a new child; pid names that child only,
\* and in, out and err refer to the pipes this call created, none of which
\* existed at an earlier launch.
C9_ReusableAfterClose ==
    (lastOp.op = "open" /\ lastOp.prev = "close" /\ lastOp.arg # -1) =>
        /\ lastOp.ret = 1
        /\ Len(procs) = NewChild
        /\ Target(procs, Obj.pid) = {NewChild}
        /\ {Obj.in, Obj.out, Obj.err} \subseteq DOMAIN fds
        /\ <<fds[Obj.in].pipe, fds[Obj.out].pipe, fds[Obj.err].pipe>> = lastOp.pipes
        /\ \A k \in Range(lastOp.pipes) : k > npipes - 3

\* the handle had launched a child before it was closed and opened again
C9_Witness ==
    /\ lastOp.op = "open"
    /\ lastOp.prev = "close"
    /\ lastOp.ret = 1
    /\ LaunchedBefore # {}
    /\ procs[ChildBefore].pid = Obj.pid

\* C10: process_close on a closed or never launched handle closes no
\* descriptor, sends no signal, reaps nothing and changes no field; so a
\* second process_close in a row changes nothing.
C10_CloseIdempotent ==
    [][\A h \in Handles, delivered \in BOOLEAN :
          (AllUnset(P[h]) /\ CallClose(h, delivered)) =>
              /\ lastOp'.calls = <<>>
              /\ UNCHANGED <<P, fds, procs, npipes>>]_vars

\* a second process_close in a row
C10_Witness ==
    /\ lastOp.op = "close"
    /\ lastOp.prev = "close"
    /\ AllUnset(lastOp.pre)

---------------------------------------------------------------------------
(* The lists and their storage *)

\* the list of handle h (array arr, element pointers elems) holds exactly
\* the strings the caller appended since it was absent, each in a block of
\* its own that is not the caller's string, and ends with NULL
StoredAsAppended(h, arr, elems) ==
    LET a == appended[h][arr]
        N == Len(a.items)
        list == P[h][arr]
        ptrs == mem.own[h][elems]
    IN  a.from = "absent" =>
            /\ _process_array_count(list) = N
            /\ Len(ptrs) = N
            /\ N = 0 => list = <<>> /\ mem.own[h][arr] = NullPtr
            /\ N > 0 =>
                  /\ Len(list) = N + 1
                  /\ list[N + 1] = Nil
                  /\ mem.own[h][arr] \in mem.live
                  /\ \A i \in 1..N :
                        /\ list[i] = a.items[i]
                        /\ ptrs[i] \in mem.live
                        /\ ptrs[i] # StaticAddr(a.items[i])
                        /\ ptrs[i] # mem.own[h][arr]
                        /\ \A j \in 1..N : ptrs[j] = ptrs[i] => j = i

\* C11: after N single appends (process_add_arg, process_add_env) to a list
\* that was absent, the list counts N strings, its i-th string has the
\* content of the i-th appended string and is stored in a block of its own
\* that is not the caller's string, and position N holds the NULL that ends
\* the list.
C11_AppendsStored ==
    \A h \in Handles :
        StoredAsAppended(h, "argv", "argvs") /\ StoredAsAppended(h, "envp", "envs")

\* three different appends to an argument list that was absent, and an
\* environment list built the same way
C11_Witness ==
    /\ lastOp.op = "add_arg"
    /\ appended[lastOp.h].argv.from = "absent"
    /\ Len(appended[lastOp.h].argv.items) = MaxLen
    /\ appended[lastOp.h].argv.items[1] # appended[lastOp.h].argv.items[2]
    /\ appended[lastOp.h].envp.from = "absent"
    /\ Len(appended[lastOp.h].envp.items) > 0

\* the k strings of an array the caller passes: none for NULL, else all
\* its slots but the last, which holds NULL
Given(arr) == IF arr = <<>> THEN <<>> ELSE SubSeq(arr, 1, Len(arr) - 1)

\* k single appends to the list arr of the object p, in order
RECURSIVE AddEach(_, _, _)
AddEach(p, arr, items) ==
    IF items = <<>> THEN p
    ELSE AddEach(IF arr = "argv" THEN process_add_arg(p, Head(items))
                 ELSE process_add_env(p, Head(items)),
                 arr, Tail(items))

\* C12: process_add_args (process_add_envs) given an array of k strings
\* leaves the object as k calls of process_add_arg (process_add_env) on
\* those strings in order leave it; given NULL or an array with no string
\* it changes nothing and allocates nothing.
C12_BulkIsSequential ==
    /\ lastOp.op = "add_args" =>
          /\ Obj = AddEach(lastOp.pre, "argv", Given(lastOp.arg))
          /\ Given(lastOp.arg) = <<>> => Obj = lastOp.pre /\ mem = lastOp.premem
    /\ lastOp.op = "add_envs" =>
          /\ Obj = AddEach(lastOp.pre, "envp", Given(lastOp.arg))
          /\ Given(lastOp.arg) = <<>> => Obj = lastOp.pre /\ mem = lastOp.premem

\* two different strings appended at once to a list that held one
C12_Witness ==
    /\ lastOp.op = "add_args"
    /\ Len(Given(lastOp.arg)) = MaxArr
    /\ lastOp.arg[1] # lastOp.arg[2]
    /\ _process_array_count(lastOp.pre.argv) > 0

\* the blocks the last library call passed to free(), and whether it
\* passed none of them twice
Released ==
    {mem.log[i][2] : i \in {j \in DOMAIN mem.log :
                               mem.log[j][1] = "free" /\ mem.log[j][2] # NullPtr}}
ReleasedOnce ==
    \A i, j \in DOMAIN mem.log :
        (mem.log[i] = mem.log[j] /\ mem.log[i][1] = "free" /\ mem.log[i][2] # NullPtr)
            => i = j

\* the blocks of the list arr of the last call's handle before the call:
\* the array and the strings its slots point to
ListBlocks(arr, elems) ==
    LET before == lastOp.premem.own[lastOp.h]
    IN  ({before[arr]} \cup Range(before[elems])) \ {NullPtr}

\* the last call, a clear of the list arr, left it absent and released
\* the list's blocks, which were in use, once each and nothing else
Cleared(arr, elems) ==
    /\ Obj = [lastOp.pre EXCEPT ![arr] = <<>>]
    /\ _process_array_count(Obj[arr]) = 0
    /\ mem.own[lastOp.h] = [lastOp.premem.own[lastOp.h] EXCEPT ![arr] = NullPtr,
                                                               ![elems] = <<>>]
    /\ Len(lastOp.premem.own[lastOp.h][elems]) = _process_array_count(lastOp.pre[arr])
    /\ lastOp.pre[arr] # <<>> => lastOp.premem.own[lastOp.h][arr] # NullPtr
    /\ ListBlocks(arr, elems) \subseteq lastOp.premem.live
    /\ Released = ListBlocks(arr, elems)
    /\ ReleasedOnce
    /\ mem.live = lastOp.premem.live \ ListBlocks(arr, elems)
    /\ mem.ub = lastOp.premem.ub
    /\ lastOp.pre[arr] = <<>> =>
          /\ Released = {}
          /\ Obj = lastOp.pre
          /\ [mem EXCEPT !.log = <<>>] = lastOp.premem

\* C13: after process_clear_argv (process_clear_envp) the list is NULL and
\* counts 0, and every string of the list and the array itself have been
\* released exactly once; a clear of a list that is already absent releases
\* nothing and changes nothing.
C13_ClearReleasesOnce ==
    /\ ~mem.ub
    /\ lastOp.op = "clear_argv" => Cleared("argv", "argvs")
    /\ lastOp.op = "clear_envp" => Cleared("envp", "envs")

\* a full argument list cleared while the environment list holds strings
C13_Witness ==
    /\ lastOp.op = "clear_argv"
    /\ _process_array_count(lastOp.pre.argv) = MaxLen
    /\ _process_array_count(Obj.envp) > 0
    /\ Cardinality(Released) = MaxLen + 1

---------------------------------------------------------------------------
(* The child and its pipes *)

\* no process has a write end of pipe k open: a terminated child has no
\* descriptor left
NoWriter(k) ==
    /\ \A d \in DOMAIN fds : fds[d] # [pipe |-> k, end |-> "w"]
    /\ \A c \in 1..Len(procs) :
          \A d \in DOMAIN procs[c].fds : procs[c].fds[d] # [pipe |-> k, end |-> "w"]

\* read(fd, ...) in the parent returns 0 once the pipe is drained: fd is
\* the read end of a pipe that has no writer
AtEndOfFile(fd) ==
    /\ fd \in DOMAIN fds
    /\ fds[fd].end = "r"
    /\ NoWriter(fds[fd].pipe)

\* the last call was a process_open that forked a child
OpenForked == lastOp.op = "open" /\ Len(procs) > lastOp.nprocs

\* C14: when execve fails in the child, process_open has returned 1 in the
\* parent all the same, the child has exited with status 1 (it runs none of
\* the caller's code: it is terminated and holds no descriptor), and a read
\* of the parent on out or err reaches end of file, because no write end of
\* these pipes is open anywhere once the child has exited.
C14_ExecFailureSeenAsEof ==
    (OpenForked /\ procs[NewChild].status = "1") =>
        /\ lastOp.ret = 1
        /\ procs[NewChild].st = "zombie"
        /\ procs[NewChild].fds = NoFds
        /\ AtEndOfFile(Obj.out)
        /\ AtEndOfFile(Obj.err)

\* the child of the handle's second launch failed to load its program
C14_Witness ==
    /\ OpenForked
    /\ lastOp.nprocs > 0
    /\ procs[NewChild].status = "1"
    /\ Obj.pid = procs[NewChild].pid

\* C15: once process_close has returned on a launched handle, the child it
\* had launched has been reaped, whether or not the SIGKILL had taken
\* effect when waitpid looked.
C15_CloseReapsChild ==
    (lastOp.op = "close" /\ lastOp.pre.pid # Unset) =>
        procs[ChildBefore].st = "reaped"

\* the descriptors of a descriptor table that refer to the pipes ks
PipeDescriptors(tbl, ks) == {d \in DOMAIN tbl : tbl[d].pipe \in ks}

\* the processes other than child c that have a read end of pipe k open
OtherReaders(c, k) ==
    {0 : d \in {e \in DOMAIN fds : fds[e] = [pipe |-> k, end |-> "r"]}}
    \cup {b \in (1..Len(procs)) \ {c} :
             \E d \in DOMAIN procs[b].fds : procs[b].fds[d] = [pipe |-> k, end |-> "r"]}

\* C16: the wiring of the pipes is complete before it matters.  When the
\* child is about to call execve (and in the program it runs), its
\* descriptors 0, 1 and 2 are the read end of the input pipe and the write
\* ends of the output and error pipes, and the six descriptors pipe() gave
\* are closed in it.  When process_open has returned, the parent has closed
\* the three ends it does not use and in, out and err are the other three.
\* At every moment from then on while the child runs, the pipe that in
\* writes to has a read end in the child (the one that is or becomes its
\* descriptor 0) and in no other process, so what is written to in is read
\* from the child's standard input only.
C16_WiringComplete ==
    OpenForked =>
        LET k == procs[NewChild]
            i == lastOp.pipes[1]
            o == lastOp.pipes[2]
            e == lastOp.pipes[3]
            six == Range(k.ipipe) \cup Range(k.opipe) \cup Range(k.epipe)
        IN  /\ fds[Obj.in] = [pipe |-> i, end |-> "w"]
            /\ fds[Obj.out] = [pipe |-> o, end |-> "r"]
            /\ fds[Obj.err] = [pipe |-> e, end |-> "r"]
            /\ PipeDescriptors(fds, {i, o, e}) = {Obj.in, Obj.out, Obj.err}
            /\ Cardinality(six) = 6
            /\ k.st \in {"exec", "image"} =>
                  /\ k.fds[0] = [pipe |-> i, end |-> "r"]
                  /\ k.fds[1] = [pipe |-> o, end |-> "w"]
                  /\ k.fds[2] = [pipe |-> e, end |-> "w"]
                  /\ six \cap DOMAIN k.fds = {}
                  /\ PipeDescriptors(k.fds, {i, o, e}) = {0, 1, 2}
            /\ k.st = "fork" => k.fds[k.ipipe[1]] = [pipe |-> i, end |-> "r"]
            /\ k.st \in Running => OtherReaders(NewChild, i) = {}

\* the child of the handle's second launch runs its program
C16_Witness ==
    /\ OpenForked
    /\ lastOp.nprocs > 0
    /\ procs[NewChild].st = "image"
    /\ ~procs[NewChild].sig

---------------------------------------------------------------------------
(* Edits of a launched handle *)

\* a call on handle h that appends to or clears one of its lists
EditStep(h) ==
    \/ lastOp'.op = "add_arg" /\ \E arg \in ArgStrings : CallAddArg(h, arg)
    \/ lastOp'.op = "add_env" /\ \E env \in EnvStrings : CallAddEnv(h, env)
    \/ lastOp'.op = "clear_argv" /\ CallClearArgv(h)
    \/ lastOp'.op = "clear_envp" /\ CallClearEnvp(h)

\* C17: appending to or clearing the lists of a handle that is running
\* changes the handle's stored lists only: pid, in, out and err (and the
\* path, the parent's descriptors and the children) are as before.  The
\* path, arguments and environment of a child are those the handle held
\* when process_open forked it, and no later step changes them.
C17_EditsLeaveChildAlone ==
    [][/\ \A h \in Handles :
             (P[h].pid # Unset /\ EditStep(h)) =>
                 /\ P'[h].pid = P[h].pid
                 /\ P'[h].in = P[h].in
                 /\ P'[h].out = P[h].out
                 /\ P'[h].err = P[h].err
                 /\ P'[h].path = P[h].path
                 /\ UNCHANGED <<fds, procs, npipes>>
       /\ \A c \in 1..Len(procs) : procs'[c].img = procs[c].img
       /\ \A h \in Handles :
             Len(procs') > Len(procs) /\ procs'[Len(procs')].owner = h =>
                 procs'[Len(procs')].img =
                     [path |-> P[h].path, argv |-> P[h].argv, envp |-> P[h].envp]
      ]_vars

\* an argument appended to a handle whose child runs the program it was
\* launched with, the handle's list now differing from the child's
C17_Witness ==
    /\ lastOp.op = "add_arg"
    /\ lastOp.pre.pid # Unset
    /\ procs[ChildBefore].st = "image"
    /\ procs[ChildBefore].img.argv # Obj.argv
    /\ procs[ChildBefore].img.argv = lastOp.pre.argv

---------------------------------------------------------------------------
(* process_free and the storage of a handle *)

\* the blocks an object points to, itself included
Owned(o) ==
    ({o.self, o.path, o.argv, o.envp} \cup Range(o.argvs) \cup Range(o.envs)) \ {NullPtr}

\* the blocks a list of the object p takes: its strings and its array
BlocksOfList(list) == IF list = <<>> THEN 0 ELSE _process_array_count(list) + 1

\* C18: process_free on a handle built by any sequence of process_create,
\* appends and clears releases the path, every argument string, every
\* environment string, both arrays and the object itself exactly once each:
\* nothing stays allocated and nothing is freed twice.  process_free(NULL)
\* releases nothing and changes nothing.
C18_FreeReleasesAllOnce ==
    /\ ~mem.ub
    /\ ~mem.lost
    /\ (lastOp.op = "free" /\ lastOp.h # NullHandle) =>
          LET mine == Owned(lastOp.premem.own[lastOp.h])
          IN  /\ Cardinality(mine) =
                    2 + BlocksOfList(lastOp.pre.argv) + BlocksOfList(lastOp.pre.envp)
              /\ mine \subseteq lastOp.premem.live
              /\ Released = mine
              /\ ReleasedOnce
              /\ mem.live = lastOp.premem.live \ mine
              /\ mem.live = UNION {Owned(mem.own[h]) : h \in Handles}
              /\ mem.own[lastOp.h] = NoBlocks
    /\ (lastOp.op = "free" /\ lastOp.h = NullHandle) =>
          /\ Released = {}
          /\ [mem EXCEPT !.log = <<>>] = lastOp.premem

\* process_free of a handle with a full argument list and an environment
C18_Witness ==
    /\ lastOp.op = "free"
    /\ lastOp.h # NullHandle
    /\ _process_array_count(lastOp.pre.argv) = MaxLen
    /\ _process_array_count(lastOp.pre.envp) > 0
    /\ Cardinality(Released) > MaxLen + 3
    /\ mem.live = {}

---------------------------------------------------------------------------
(* Descriptors and signals over the life of a handle *)

\* the descriptors the handles that are not freed hold in in, out and err
Stored == UNION {{P[h].in, P[h].out, P[h].err} : h \in {g \in Handles : Live(g)}}

\* C19: after any sequence of process_open and process_close calls (no
\* handle has been freed) every pipe descriptor open in the parent is
\* stored in the in, out or err of a handle; so after a process_close, which
\* leaves them unset, the parent has no pipe descriptor open.
C19_NoDescriptorLeak ==
    (\A h \in Handles : P[h].st # "freed") =>
        PipeDescriptors(fds, 1..npipes) \subseteq Stored

\* the children handle h has launched, and the last of them
LaunchedBy(h) == {c \in 1..Len(procs) : procs[c].owner = h}
LastLaunched(h) == CHOOSE c \in LaunchedBy(h) : \A d \in LaunchedBy(h) : d <= c

\* the pids the kill() calls of a call were given
Killed(calls) == {calls[i][2] : i \in {j \in DOMAIN calls : calls[j][1] = "kill"}}

\* C20: process_close signals its own child only.  Every kill() it issues
\* is given the pid that fork() returned to the handle's last successful
\* launch, a pid greater than 0 (never -1 or 0), and at that moment the pid
\* names exactly that child, which has not been reaped since it was forked;
\* on a handle whose pid is unset (never launched, closed, or left by a
\* failed fork) it issues no kill() at all.
C20_KillsOwnChildOnly ==
    [][\A h \in Handles, delivered \in BOOLEAN :
          (lastOp'.op = "close" /\ CallClose(h, delivered)) =>
              /\ \A pid \in Killed(lastOp'.calls) :
                    /\ pid > 0
                    /\ pid = P[h].pid
                    /\ LaunchedBy(h) # {}
                    /\ Target(procs, pid) = {LastLaunched(h)}
              /\ P[h].pid = Unset => Killed(lastOp'.calls) = {}
              /\ \A c \in (1..Len(procs)) \ Target(procs, P[h].pid) :
                    procs'[c] = procs[c]
      ]_vars

\* a process_close that sent SIGKILL to the child of the handle's second
\* launch, the first child reaped before
C20_Witness ==
    /\ lastOp.op = "close"
    /\ Killed(lastOp.calls) # {}
    /\ Cardinality(LaunchedBefore) > 1
    /\ \E c \in LaunchedBefore : c # ChildBefore /\ procs[c].st = "reaped"

---------------------------------------------------------------------------
(* Two handles *)

\* the pipes whose ends handle h holds in in, out and err
HandlePipes(h) ==
    {fds[d].pipe : d \in {P[h].in, P[h].out, P[h].err} \cap DOMAIN fds}

\* C21: a launched child holds pipe ends of its own handle only.  The
\* program a child runs has no descriptor open for a pipe of another
\* launched handle; so the write end the parent holds in a handle's in is the only
\* write end of that pipe, and closing it gives the handle's child end of
\* file whatever other children run.
C21_ChildHoldsOwnPipesOnly ==
    \A c \in 1..Len(procs) :
        procs[c].st = "image" =>
            \A h \in Handles \ {procs[c].owner} :
                P[h].pid # Unset => PipeDescriptors(procs[c].fds, HandlePipes(h)) = {}

=============================================================================
